---------------------------- MODULE Spec2Model ----------------------------
(***************************************************************************)
(* A state-machine model of the flight, spell, mana-collection and world- *)
(* transition logic of magical-vibe-carpet (PlayerSystem, PlayerPhysics,   *)
(* PlayerSpells, PlayerInput, WorldSystem, NetworkManager).                *)
(*                                                                         *)
(* Numbers.  The program computes in IEEE doubles; the model computes in   *)
(* fixed point, rounding toward zero:                                      *)
(*   lengths, speeds, forces   hundredths of a world unit   (Scale)        *)
(*   time (delta, cooldowns)   tenths of a second           (TimeScale)    *)
(*   angles                    milliradians                 (AngleScale)   *)
(*   sines, cosines            thousandths                  (AngleScale)   *)
(*   transitionAlpha           twentieths (0.5 * delta per tick)           *)
(* Presentation state (scene graph, camera, DOM overlay, particles, the    *)
(* carpet's visual pitch and roll) is not part of the model.               *)
(***************************************************************************)
EXTENDS Integers, Sequences, FiniteSets, TLC

VARIABLES
  seed,                   \* WorldSystem.seed
  heightMap,              \* WorldSystem.heightMap, held as the seed it was computed from
  manaNodes,              \* WorldSystem.manaNodes: sequence of nodes
  players,                \* PlayerSystem.players: id -> actor (LocalRef: the localPlayer object)
  localPlayer,            \* PlayerSystem.localPlayer: the local actor object, or NoPlayer
  isTransitioning,        \* PlayerSystem.isTransitioning
  transitionAlpha,        \* PlayerSystem.transitionAlpha (twentieths)
  worldTransitionComplete,\* PlayerSystem.worldTransitionComplete: a callback is set
  spellCooldown,          \* PlayerSpells.spellCooldown (tenths of a second)
  activeSpells,           \* PlayerSpells.activeSpells: sequence of projectiles
  inputState,             \* PlayerInput: movementState, mouseControlState, boosting
  netPlayers,             \* NetworkManager.players: id -> last merged snapshot
  localPlayerId,          \* NetworkManager.localPlayerId
  elapsed,                \* Engine.elapsed (tenths of a second)
  obs,                    \* what the last operation did (its name, its results, its log)
  hist                    \* counters over the run: operations taken, objects created

vars == << seed, heightMap, manaNodes, players, localPlayer, isTransitioning,
           transitionAlpha, worldTransitionComplete, spellCooldown, activeSpells,
           inputState, netPlayers, localPlayerId, elapsed, obs, hist >>

-----------------------------------------------------------------------------
(* Units and arithmetic                                                    *)

Scale == 10 * 10
TimeScale == 5 + 5
AngleScale == 10 * 10 * 10

Abs(a) == IF a < 0 THEN -a ELSE a
Sign(a) == IF a < 0 THEN -1 ELSE IF a > 0 THEN 1 ELSE 0
Min2(a, b) == IF a < b THEN a ELSE b
Max2(a, b) == IF a > b THEN a ELSE b

\* a / b rounded toward zero (b > 0)
RDiv(a, b) == IF a >= 0 THEN a \div b ELSE -((-a) \div b)

\* Math.floor(a / b) and Math.ceil(a / b) (b > 0); \div is the floor in TLA+
FloorDiv(a, b) == a \div b
CeilDiv(a, b) == -((-a) \div b)

\* THREE.MathUtils.clamp(value, min, max) = Math.max(min, Math.min(max, value))
Clamp(v, lo, hi) == Max2(lo, Min2(hi, v))

\* THREE.MathUtils.lerp(x, y, t) = (1 - t) * x + t * y, with t = tn / td
Lerp(x, y, tn, td) == x + RDiv((y - x) * tn, td)

\* integer square root, by Newton's iteration from above
RECURSIVE SqrtIter(_, _)
SqrtIter(n, r) ==
  LET r2 == (r + n \div r) \div 2
  IN IF r2 >= r THEN r ELSE SqrtIter(n, r2)

ISqrt(n) == IF n <= 0 THEN 0 ELSE SqrtIter(n, n)

Vec(a, b, c) == [x |-> a, y |-> b, z |-> c]
ZeroVec == Vec(0, 0, 0)
VAdd(u, v) == Vec(u.x + v.x, u.y + v.y, u.z + v.z)
\* v * (n / d)
VScale(v, n, d) == Vec(RDiv(v.x * n, d), RDiv(v.y * n, d), RDiv(v.z * n, d))

\* Vector3.length(); a large vector is measured in coarser units, so that the
\* squares stay in range
LengthIn(v, d) ==
  d * ISqrt(RDiv(v.x, d) * RDiv(v.x, d) + RDiv(v.y, d) * RDiv(v.y, d)
            + RDiv(v.z, d) * RDiv(v.z, d))
VLength(v) ==
  LET big == Max2(Abs(v.x), Max2(Abs(v.y), Abs(v.z)))
  IN IF big <= 200 * Scale THEN LengthIn(v, 1)
     ELSE IF big <= 200 * Scale * Scale THEN LengthIn(v, Scale)
     ELSE LengthIn(v, Scale * Scale)

\* a.distanceTo(b) < r, decided without forming squares of large differences
DistanceLess(a, b, r) ==
  /\ Abs(a.x - b.x) < r
  /\ Abs(a.y - b.y) < r
  /\ Abs(a.z - b.z) < r
  /\ (a.x - b.x) * (a.x - b.x) + (a.y - b.y) * (a.y - b.y)
       + (a.z - b.z) * (a.z - b.z) < r * r

\* Math.PI in milliradians
Pi == 3142

\* sine and cosine of an angle in milliradians, in thousandths
\* (Bhaskara's rational approximation on [0, pi], exact at 0, pi/2 and pi)
SinHalf(a) == (16 * a * (Pi - a)) \div ((5 * Pi * Pi - 4 * a * (Pi - a)) \div AngleScale)
Sin(a) ==
  LET r == a % (2 * Pi)
  IN IF r <= Pi THEN SinHalf(r) ELSE -SinHalf(r - Pi)
Cos(a) == Sin(a + Pi \div 2)

-----------------------------------------------------------------------------
(* WorldSystem: terrain                                                    *)

worldSize == 1000
heightScale == 60
resolution == 100

\* Seeds and node layouts stand for the draws of Math.random()
MaxSeed == 1
Seeds == 0..MaxSeed

\* SimplexNoise.noise(u, v): a library function with values in [-1, 1]; here a
\* fixed function of its arguments (u, v and the result in thousandths)
\* (a triangle wave of u + 2v)
Tri(t) ==
  LET r == t % (4 * AngleScale)
  IN IF r <= AngleScale THEN r
     ELSE IF r <= 3 * AngleScale THEN 2 * AngleScale - r
     ELSE r - 4 * AngleScale
NoisePhase == 762
Noise(u, v) == Tri(u + 2 * v + NoisePhase)

\* heightMap[i][j] as createTerrainCollision computes it from the seed s
HeightAt(s, i, j) ==
  LET nx == (AngleScale * i) \div resolution - AngleScale \div 2  \* x / worldSize, thousandths
      nz == (AngleScale * j) \div resolution - AngleScale \div 2
      noise1 == Noise((nx * 3) \div 2 + s * AngleScale, (nz * 3) \div 2 + s * AngleScale)
      noise2 == Noise(nx * 3 + s * 2 * AngleScale, nz * 3 + s * 2 * AngleScale)
      noise3 == Noise(nx * 6 + s * 3 * AngleScale, nz * 6 + s * 3 * AngleScale)
  IN RDiv((4 * noise1 + 2 * noise2 + noise3) * heightScale * Scale, 8 * AngleScale)

\* createTerrainCollision(): the grid computed from the current seed
createTerrainCollision(s) == s

\* one cell of the cached grid
Cell(hm, i, j) == HeightAt(hm, i, j)

Num(v) == [kind |-> "num", v |-> v]
NaN == [kind |-> "nan", v |-> 0]
Throw == [kind |-> "throw", v |-> 0]

\* the grid coordinate (x + worldSize / 2) / worldSize * resolution, thousandths
GridCoord(x) ==
  (x + (worldSize * Scale) \div 2) * ((AngleScale * resolution) \div (worldSize * Scale))

\* an index of the grid: 0 .. heightMap.length - 1
InGrid(k) == k >= 0 /\ k <= resolution

\* a * (1 - f) + b * f, f in thousandths
Mix(a, b, f) == RDiv(a * (AngleScale - f) + b * f, AngleScale)

\* the bilinear interpolation of getTerrainHeight from the four cells.
\* heightMap[x1] undefined raises a TypeError; an undefined cell of an existing
\* row gives NaN.
SampleCells(hm, fx, fz, x1, x2, z1, z2) ==
  IF ~InGrid(x1) \/ ~InGrid(x2) THEN Throw
  ELSE IF ~InGrid(z1) \/ ~InGrid(z2) THEN NaN
  ELSE Num(Mix(Mix(Cell(hm, x1, z1), Cell(hm, x2, z1), fx),
               Mix(Cell(hm, x1, z2), Cell(hm, x2, z2), fx), fz))

\* x1 = Math.floor(nx), x2 = Math.min(Math.ceil(nx), length - 1), and so for z:
\* x1 and z1 are not clamped, x2 and z2 only from above
SampleAt(hm, nx, nz) ==
  SampleCells(hm, nx - FloorDiv(nx, AngleScale) * AngleScale,
              nz - FloorDiv(nz, AngleScale) * AngleScale,
              FloorDiv(nx, AngleScale), Min2(CeilDiv(nx, AngleScale), resolution),
              FloorDiv(nz, AngleScale), Min2(CeilDiv(nz, AngleScale), resolution))

\* getTerrainHeight(x, z)
getTerrainHeight(hm, x, z) == SampleAt(hm, GridCoord(x), GridCoord(z))

-----------------------------------------------------------------------------
(* WorldSystem: mana nodes                                                 *)

nodeCount == 20
nodeRadius == 2
nodeHover == 10

\* The random draws of createManaNodes: layout L places node i at (x, z), inside
\* 0.8 of the world extent, with a value in 10..29.  Layout 0 has three nodes
\* close to the world centre.
MaxLayout == 1
Layouts == 0..MaxLayout
NearCentre == << Vec(0, 0, 0), Vec(3 * Scale, 0, 4 * Scale), Vec(0, 0, 8 * Scale) >>
Spread(k) == ((k + 400 * Scale) % (800 * Scale + 1)) - 400 * Scale
NodeXZ(L, i) ==
  IF L = 0 /\ i <= Len(NearCentre) THEN NearCentre[i]
  ELSE Vec(Spread((i * 3700 + L * 10100) * 7), 0, Spread((i * 5300 + L * 7700) * 11))
NodeValue(L, i) == 10 + ((i * 7 + L * 3) % 20)

\* createManaNodes(): nodeCount fresh, uncollected nodes, 10 above the terrain
createManaNodes(L, hm) ==
  [i \in 1..nodeCount |->
     LET xz == NodeXZ(L, i)
         t == getTerrainHeight(hm, xz.x, xz.z)
     IN [position |-> Vec(xz.x, t.v + nodeHover * Scale, xz.z),
         value |-> NodeValue(L, i),
         collected |-> FALSE]]

\* checkManaCollection without the test of userData.collected
CollectHitAgain(nodes, position, radius, i) ==
  DistanceLess(position, nodes[i].position, radius + nodeRadius * Scale)

\* checkManaCollection returning no more than one node of those in reach
CollectedIndicesFirst(nodes, position, radius) ==
  LET S == {i \in 1..Len(nodes) : ~nodes[i].collected
              /\ DistanceLess(position, nodes[i].position, radius + nodeRadius * Scale)}
  IN IF S = {} THEN {} ELSE {CHOOSE i \in S : \A k \in S : i <= k}

\* WorldSystem.checkManaCollection(position, radius): the nodes after the call
\* and the indices of the nodes returned
CollectHit(nodes, position, radius, i) ==
  /\ ~nodes[i].collected
  /\ DistanceLess(position, nodes[i].position, radius + nodeRadius * Scale)
CollectedIndices(nodes, position, radius) ==
  {i \in 1..Len(nodes) : CollectHit(nodes, position, radius, i)}
MarkCollected(nodes, position, radius) ==
  [i \in 1..Len(nodes) |->
     IF CollectHit(nodes, position, radius, i)
     THEN [nodes[i] EXCEPT !.collected = TRUE]
     ELSE nodes[i]]

\* WorldSystem.update(delta, elapsed): an uncollected node bobs by
\* Math.sin(elapsed * 2 + index * 0.5) * 0.03 (index from 0)
bobAmplitude == 3
Bob(t, i) ==
  RDiv(Sin(t * 2 * (AngleScale \div TimeScale) + (i - 1) * (AngleScale \div 2))
         * bobAmplitude, AngleScale)
Bobbed(nodes, t) ==
  [i \in 1..Len(nodes) |->
     IF nodes[i].collected THEN nodes[i]
     ELSE [nodes[i] EXCEPT !.position.y = @ + Bob(t, i)]]

-----------------------------------------------------------------------------
(* The machine state as one record, so that a handler is a function of it  *)

Cur ==
  [seed |-> seed, heightMap |-> heightMap, manaNodes |-> manaNodes,
   players |-> players, localPlayer |-> localPlayer,
   isTransitioning |-> isTransitioning, transitionAlpha |-> transitionAlpha,
   worldTransitionComplete |-> worldTransitionComplete,
   spellCooldown |-> spellCooldown, activeSpells |-> activeSpells,
   inputState |-> inputState, netPlayers |-> netPlayers,
   localPlayerId |-> localPlayerId, elapsed |-> elapsed, obs |-> obs,
   hist |-> hist]

Apply(m) ==
  /\ seed' = m.seed
  /\ heightMap' = m.heightMap
  /\ manaNodes' = m.manaNodes
  /\ players' = m.players
  /\ localPlayer' = m.localPlayer
  /\ isTransitioning' = m.isTransitioning
  /\ transitionAlpha' = m.transitionAlpha
  /\ worldTransitionComplete' = m.worldTransitionComplete
  /\ spellCooldown' = m.spellCooldown
  /\ activeSpells' = m.activeSpells
  /\ inputState' = m.inputState
  /\ netPlayers' = m.netPlayers
  /\ localPlayerId' = m.localPlayerId
  /\ elapsed' = m.elapsed
  /\ obs' = m.obs
  /\ hist' = m.hist

\* the record of what one operation did, empty at its start
NoObs(name) ==
  [op |-> name,
   delta |-> 0,
   thrown |-> FALSE,       \* the handler ended in a TypeError
   removals |-> <<>>,      \* updateSpells: [by, splices, removed, cause] per projectile removed
   updated |-> <<>>,       \* updateSpells: ids of the projectiles advanced, in order
   damage |-> <<>>,        \* updateSpells: [by, targets, amount] per projectile that hit
   conds |-> <<>>,         \* updateSpells: per projectile advanced, what held for it
   collected |-> {},       \* checkManaCollection: indices of the nodes returned
   regenerated |-> 0,      \* times the regeneration callback ran
   castAccepted |-> FALSE, \* castSpell got past its guard
   snapshot |-> << >>,     \* player_join, player_leave, player_update: the data of the event
   order |-> << >>,        \* update: the steps of the frame, in the order they were run
   started |-> FALSE]      \* startWorldTransition set the transition state

Begin(m, name) == [m EXCEPT !.obs = NoObs(name)]

\* the step called name is entered
Logged(m, name) == [m EXCEPT !.obs.order = Append(@, name)]

-----------------------------------------------------------------------------
(* PlayerSystem: the player set                                            *)

NoPlayer == [none |-> TRUE]
NoId == "none"
\* the entry of the player set that is the localPlayer object itself
LocalRef == [ref |-> "localPlayer"]

startPosition == Vec(0, 50 * Scale, 0)
startHealth == 100
defaultY == 20

\* the actor stored under id
Actor(m, id) == IF m.players[id] = LocalRef THEN m.localPlayer ELSE m.players[id]
HasPlayer(m, id) == id \in DOMAIN m.players
HasLocal(m) == m.localPlayer # NoPlayer

NoShield == [on |-> FALSE, duration |-> 0]

NewLocalPlayer(id) ==
  [id |-> id, isLocal |-> TRUE,
   position |-> startPosition,
   rotation |-> [x |-> 0, y |-> 0],
   velocity |-> ZeroVec, acceleration |-> ZeroVec,
   bankAngle |-> 0, mana |-> 0,
   health |-> startHealth, maxHealth |-> startHealth,
   altitudeVelocity |-> 0, currentSpell |-> 0,
   shield |-> NoShield]

\* players without key id
Without(ps, id) == [k \in DOMAIN ps \ {id} |-> ps[k]]
\* players.set(id, a)
With(ps, id, a) == [k \in DOMAIN ps \cup {id} |-> IF k = id THEN a ELSE ps[k]]

\* createLocalPlayer(id): an entry that was the former localPlayer object keeps
\* that object
createLocalPlayer(m, id) ==
  LET kept == [k \in DOMAIN m.players |->
                 IF m.players[k] = LocalRef THEN m.localPlayer ELSE m.players[k]]
  IN [m EXCEPT !.players = With(kept, id, LocalRef),
               !.localPlayer = NewLocalPlayer(id)]

\* data.f || d : an absent field and 0 are both falsy
OrElse(data, f, d) == IF f \in DOMAIN data /\ data[f] # 0 THEN data[f] ELSE d

NewNetworkPlayer(data) ==
  [id |-> data.id, isLocal |-> FALSE,
   position |-> Vec(OrElse(data, "x", 0), OrElse(data, "y", defaultY * Scale),
                    OrElse(data, "z", 0)),
   rotation |-> [x |-> 0, y |-> 0],
   velocity |-> ZeroVec,
   mana |-> 0, health |-> startHealth, maxHealth |-> startHealth]

\* createNetworkPlayer(data) without the test for a duplicate
createNetworkPlayerAgain(m, data) ==
  [m EXCEPT !.players = With(m.players, data.id, NewNetworkPlayer(data))]

\* createNetworkPlayer(data)
createNetworkPlayer(m, data) ==
  IF HasPlayer(m, data.id) THEN m
  ELSE [m EXCEPT !.players = With(m.players, data.id, NewNetworkPlayer(data))]

\* removePlayer(id)
removePlayer(m, id) ==
  IF HasPlayer(m, id) THEN [m EXCEPT !.players = Without(m.players, id)] ELSE m

Defined(data, f) == f \in DOMAIN data

\* the remote actor a after updateNetworkPlayer(data)
SmoothedActor(a, data) ==
  LET p1 == IF Defined(data, "x") /\ Defined(data, "y") /\ Defined(data, "z")
            THEN Vec(Lerp(a.position.x, data.x, 3, 10),
                     Lerp(a.position.y, data.y, 3, 10),
                     Lerp(a.position.z, data.z, 3, 10))
            ELSE a.position
      r1 == IF Defined(data, "rotationY")
            THEN [a.rotation EXCEPT !.y = Lerp(a.rotation.y, data.rotationY, 3, 10)]
            ELSE a.rotation
      m1 == IF Defined(data, "mana") THEN data.mana ELSE a.mana
      h1 == IF Defined(data, "health") THEN data.health ELSE a.health
  IN [a EXCEPT !.position = p1, !.rotation = r1, !.mana = m1, !.health = h1]

\* updateNetworkPlayer without the test of isLocal
updateNetworkPlayerAnyone(m, data) ==
  IF ~HasPlayer(m, data.id) THEN m
  ELSE IF m.players[data.id] = LocalRef
  THEN [m EXCEPT !.localPlayer = SmoothedActor(@, data)]
  ELSE [m EXCEPT !.players[data.id] = SmoothedActor(@, data)]

\* updateNetworkPlayer(data)
updateNetworkPlayer(m, data) ==
  IF HasPlayer(m, data.id) /\ ~Actor(m, data.id).isLocal
  THEN [m EXCEPT !.players[data.id] = SmoothedActor(m.players[data.id], data)]
  ELSE m

-----------------------------------------------------------------------------
(* NetworkManager                                                          *)

\* Object.assign(player, data)
Assign(player, data) == data @@ player

\* handlePlayerJoin(data)
handlePlayerJoin(m, data) ==
  createNetworkPlayer([m EXCEPT !.netPlayers = With(m.netPlayers, data.id, data)], data)

\* handlePlayerLeave(data)
handlePlayerLeave(m, data) ==
  removePlayer([m EXCEPT !.netPlayers = Without(m.netPlayers, data.id)], data.id)

\* handlePlayerUpdate(data)
handlePlayerUpdate(m, data) ==
  IF data.id \in DOMAIN m.netPlayers
  THEN LET merged == Assign(m.netPlayers[data.id], data)
       IN updateNetworkPlayer([m EXCEPT !.netPlayers[data.id] = merged], merged)
  ELSE m

\* sendPlayerUpdate(data)
netSendPlayerUpdate(m, data) ==
  IF m.localPlayerId # NoId
  THEN handlePlayerUpdate(m, Assign(data, [id |-> m.localPlayerId]))
  ELSE m

-----------------------------------------------------------------------------
(* PlayerPhysics                                                           *)

gravity == 980              \* 9.8, hundredths
minAltitude == 5
maxAltitude == 300
carpetMaxSpeed == 100
minSafeHeight == 5
maxAltitudeVelocity == 60
maxBankAngle == Pi \div 4   \* Math.PI / 4

\* (0, 0, 1).applyEuler(rotation) and (1, 0, 0).applyEuler(rotation), thousandths
\* (Euler order XYZ, rotation.z = 0)
ForwardVector(rot) ==
  Vec(Sin(rot.y), -RDiv(Cos(rot.y) * Sin(rot.x), AngleScale),
      RDiv(Cos(rot.y) * Cos(rot.x), AngleScale))
RightVector(rot) ==
  Vec(Cos(rot.y), RDiv(Sin(rot.y) * Sin(rot.x), AngleScale),
      -RDiv(Sin(rot.y) * Cos(rot.x), AngleScale))

\* applyForwardForce(player, force)
applyForwardForce(pl, force) ==
  [pl EXCEPT !.acceleration =
     VAdd(pl.acceleration, VScale(ForwardVector(pl.rotation), force, AngleScale))]

\* applySideForce(player, force): bankAngle + force * 0.02, clamped
applySideForce(pl, force) ==
  [pl EXCEPT !.acceleration =
               VAdd(pl.acceleration, VScale(RightVector(pl.rotation), force, AngleScale)),
             !.bankAngle =
               Clamp(pl.bankAngle + RDiv(force * 2 * AngleScale, 100 * Scale),
                     -maxBankAngle, maxBankAngle)]

\* applyAltitudeChange(player, force)
applyAltitudeChange(pl, force) ==
  [pl EXCEPT !.altitudeVelocity =
     Clamp(pl.altitudeVelocity + force,
           -maxAltitudeVelocity * Scale, maxAltitudeVelocity * Scale)]

\* The steps of updatePhysics return [pl |-> the actor, thrown |-> a TypeError
\* was raised].
Done(pl) == [pl |-> pl, thrown |-> FALSE]
Thrown(pl) == [pl |-> pl, thrown |-> TRUE]

\* applyForces: gravity, reduced to 0.4
Gravity(pl, delta) ==
  [pl EXCEPT !.acceleration.y = @ - RDiv(RDiv(gravity * 4, 10) * delta, TimeScale)]

\* applyForces: the bank angle b decays and turns the carpet
BankTurn(pl, b) ==
  [pl EXCEPT !.bankAngle = b,
             !.acceleration =
               VAdd(pl.acceleration,
                    VScale(RightVector(pl.rotation),
                           RDiv(b * 12 * Scale, 100 * AngleScale), AngleScale))]
Banking(pl) ==
  IF Abs(pl.bankAngle) > 10   \* 0.01 rad
  THEN BankTurn(pl, RDiv(pl.bankAngle * 9, 10))    \* carpetTurnInertia
  ELSE pl

\* applyForces: pushed up when less than minSafeHeight above the terrain t
AvoidTerrain(pl, t) ==
  IF t.kind = "num" /\ pl.position.y - t.v < minSafeHeight * Scale
  THEN [pl EXCEPT !.acceleration.y = @ + (minSafeHeight * Scale - (pl.position.y - t.v)) * 10]
  ELSE pl

\* applyForces: drag, -dragCoefficient * speed * velocity
DragOf(c, speed) == -RDiv(RDiv(c * speed, Scale) * 15, 100)
Drag(pl, speed) ==
  [pl EXCEPT !.acceleration =
     VAdd(pl.acceleration,
          Vec(DragOf(pl.velocity.x, speed), DragOf(pl.velocity.y, speed),
              DragOf(pl.velocity.z, speed)))]
Dragged(pl) == Drag(pl, VLength(pl.velocity))

ForcesOver(pl, t) ==
  IF t.kind = "throw" THEN Thrown(pl) ELSE Done(Dragged(AvoidTerrain(pl, t)))
ForcesAt(hm, pl) == ForcesOver(pl, getTerrainHeight(hm, pl.position.x, pl.position.z))

\* applyForces(player, delta)
applyForces(hm, pl, delta) == ForcesAt(hm, Banking(Gravity(pl, delta)))

\* the speed limit of updatePhysics
Limited(v, speed) ==
  IF speed > carpetMaxSpeed * Scale
  THEN Vec(RDiv(v.x * carpetMaxSpeed, RDiv(speed, Scale)),
           RDiv(v.y * carpetMaxSpeed, RDiv(speed, Scale)),
           RDiv(v.z * carpetMaxSpeed, RDiv(speed, Scale)))
  ELSE v
LimitSpeed(v) == Limited(v, VLength(v))

\* the floor of updateAltitude: Math.max(minAltitude, terrainHeight + 5)
MinHeightAboveTerrain(t) == Max2(minAltitude * Scale, t + 5 * Scale)

\* updateAltitude: the altitude velocity moves the actor and is damped
Climb(pl, delta) ==
  [pl EXCEPT !.position.y = @ + RDiv(pl.altitudeVelocity * delta, TimeScale),
             !.altitudeVelocity = RDiv(@ * 9, 10)]   \* altitudeDamping

\* the floor of updateAltitude without the bounce and with the fall kept
FlooredSoft(pl, t) ==
  IF t.kind = "num" /\ pl.position.y < MinHeightAboveTerrain(t.v)
  THEN [pl EXCEPT !.position.y = MinHeightAboveTerrain(t.v)]
  ELSE pl

\* updateAltitude: not below the floor over the terrain t
Floored(pl, t) ==
  IF t.kind = "num" /\ pl.position.y < MinHeightAboveTerrain(t.v)
  THEN [pl EXCEPT
          !.position.y = MinHeightAboveTerrain(t.v),
          !.velocity.y = IF @ < 0 THEN 0 ELSE @,
          !.altitudeVelocity = IF @ < -10 * Scale THEN RDiv(-@ * 3, 10) ELSE 0]
  ELSE pl

\* updateAltitude: not above maxAltitude
Capped(pl) ==
  IF pl.position.y > maxAltitude * Scale
  THEN [pl EXCEPT !.position.y = maxAltitude * Scale,
                  !.velocity.y = IF @ > 0 THEN 0 ELSE @,
                  !.altitudeVelocity = 0]
  ELSE pl

AltitudeOver(pl, t) ==
  IF t.kind = "throw" THEN Thrown(pl) ELSE Done(Capped(Floored(pl, t)))
AltitudeAt(hm, pl) == AltitudeOver(pl, getTerrainHeight(hm, pl.position.x, pl.position.z))

\* updateAltitude(player, delta)
updateAltitude(hm, pl, delta) == AltitudeAt(hm, Climb(pl, delta))

\* updatePhysics: velocity += acceleration * delta, carpetInertia, the speed limit
NewVelocity(pl, delta) ==
  LimitSpeed(VScale(VAdd(pl.velocity, VScale(pl.acceleration, delta, TimeScale)), 95, 100))
\* updatePhysics: position += velocity * delta
Moved(pl, v, delta) ==
  [pl EXCEPT !.velocity = v, !.position = VAdd(@, VScale(v, delta, TimeScale))]
\* updatePhysics: the acceleration is reset at the end
Settled(a) == IF a.thrown THEN a ELSE Done([a.pl EXCEPT !.acceleration = ZeroVec])
Stepped(hm, f, delta) ==
  IF f.thrown THEN f
  ELSE Settled(updateAltitude(hm, Moved(f.pl, NewVelocity(f.pl, delta), delta), delta))

\* updatePhysics(delta), for the local actor pl
updatePhysics(hm, pl, delta) == Stepped(hm, applyForces(hm, pl, delta), delta)

-----------------------------------------------------------------------------
(* PlayerInput                                                             *)

baseAcceleration == 80
turnSensitivity == 3
boostMultiplier == 2

NoInput == [forward |-> 0, right |-> 0, up |-> 0,
            yawInfluence |-> 0, pitchInfluence |-> 0, boosting |-> FALSE]

\* handlePointerLockedRotation(dx, dy): 0.002 rad per pixel, pitch clamped
handlePointerLockedRotation(pl, dx, dy) ==
  [pl EXCEPT !.rotation.y = @ - 2 * dx,
             !.rotation.x = Clamp(@ - 2 * dy, -(Pi \div 3), Pi \div 3)]

\* normalizeWithDeadzone(value, center): (value - center) / center, 0 inside the
\* dead zone of 0.1, else the square of what exceeds it, signed (hundredths)
normalizeWithDeadzone(value, center) ==
  IF Abs(RDiv((value - center) * Scale, center)) < 10 THEN 0
  ELSE Clamp(Sign(value - center)
               * RDiv(RDiv((Abs(RDiv((value - center) * Scale, center)) - 10) * Scale, 90)
                        * RDiv((Abs(RDiv((value - center) * Scale, center)) - 10) * Scale, 90),
                      Scale),
             -Scale, Scale)

\* handleMouseFlyingControl(mouseX, mouseY), the window centre being at centre
handleMouseFlyingControl(inp, mouse, centre) ==
  [inp EXCEPT !.yawInfluence = normalizeWithDeadzone(mouse.x, centre.x),
              !.pitchInfluence = normalizeWithDeadzone(mouse.y, centre.y)]

\* handleInput: movement and the mouse influences are in hundredths.
\* right += yawInfluence * turnSensitivity when the yaw influence is above 0.05
RightInput(inp) ==
  inp.right * Scale
  + (IF Abs(inp.yawInfluence) > 5 THEN inp.yawInfluence * turnSensitivity ELSE 0)

\* handleInput: the pitch follows the mouse, or levels out
Pitch(inp, pl, delta) ==
  IF Abs(inp.pitchInfluence) > 5
  THEN [pl EXCEPT !.rotation.x =
          Lerp(@, RDiv(-inp.pitchInfluence * (Pi \div 3), Scale), 1, 10)]
  ELSE [pl EXCEPT !.rotation.x = Lerp(@, 0, 25 * delta, 10 * TimeScale)]

Multiplier(inp) == IF inp.boosting THEN boostMultiplier ELSE 1

\* baseAcceleration * speedFactor * speedMultiplier
InputAcceleration(mult, speed) ==
  baseAcceleration * Scale * mult
  - RDiv(speed * baseAcceleration * 7, carpetMaxSpeed * 10)

\* handleInput: the forward force, or the slight auto-forward
Push(pl, forward, acc, delta) ==
  IF forward # 0
  THEN applyForwardForce(pl, RDiv(RDiv(acc * forward, Scale) * delta, TimeScale))
  ELSE applyForwardForce(pl, RDiv(acc * 2 * delta, 10 * TimeScale))

\* handleInput: bankAngle = lerp(bankAngle || 0, -right * bankingFactor, 0.1)
BankToward(pl, right) ==
  [pl EXCEPT !.bankAngle = Lerp(@, RDiv(-right * 8 * AngleScale, 10 * Scale), 1, 10)]

\* handleInput: the side force and the banking, or the return to level flight
Turn(pl, right, acc, delta) ==
  IF right # 0
  THEN BankToward(applySideForce(pl, RDiv(RDiv(acc * right, Scale) * delta, TimeScale)),
                  right)
  ELSE IF pl.bankAngle # 0
  THEN [pl EXCEPT !.bankAngle = Lerp(@, 0, 5, 100)]
  ELSE pl

\* handleInput: applyAltitudeChange(player, 60 * up * delta * speedMultiplier)
Lift(pl, up, mult, delta) ==
  IF up # 0
  THEN applyAltitudeChange(pl, RDiv(60 * Scale * up * delta * mult, TimeScale))
  ELSE pl

Steer(inp, pl, acc, delta) ==
  Lift(Turn(Push(pl, inp.forward * Scale, acc, delta), RightInput(inp), acc, delta),
       inp.up, Multiplier(inp), delta)
SteerFrom(inp, pl, delta) ==
  Steer(inp, pl, InputAcceleration(Multiplier(inp), VLength(pl.velocity)), delta)

\* handleInput(delta), for the local actor pl
handleInput(inp, pl, delta) == SteerFrom(inp, Pitch(inp, pl, delta), delta)

-----------------------------------------------------------------------------
(* PlayerSpells                                                            *)

\* spellTypes: speed in units per second, cooldown in tenths of a second
spellTypes ==
  << [name |-> "Fireball", damage |-> 20, speed |-> 100, cooldown |-> 5],
     [name |-> "Lightning", damage |-> 15, speed |-> 150, cooldown |-> 3],
     [name |-> "Shield", damage |-> 0, speed |-> 0, cooldown |-> 20] >>
spellLife == 30         \* 3.0 seconds
shieldDuration == 30    \* 3.0 seconds
hitRadius == 3
spellOffset == 2

\* selectSpell(index), index counted from 0
selectSpell(m, index) ==
  IF HasLocal(m) /\ index >= 0 /\ index < Len(spellTypes)
  THEN [m EXCEPT !.localPlayer.currentSpell = index]
  ELSE m

\* createShieldEffect()
createShieldEffect(m) ==
  [m EXCEPT !.localPlayer.shield = [on |-> TRUE, duration |-> shieldDuration]]

\* the projectile castSpell creates for the actor pl
NewSpell(pl, spellType, sid) ==
  LET dir == ForwardVector(pl.rotation)
  IN [sid |-> sid,
      type |-> spellType.name,
      damage |-> spellType.damage,
      position |-> VAdd(pl.position, VScale(dir, spellOffset * Scale, AngleScale)),
      velocity |-> VScale(dir, spellType.speed * Scale, AngleScale),
      life |-> spellLife,
      owner |-> pl.id]

\* castSpell without the test of the cooldown
CastRejectedNoCooldown(m) == ~HasLocal(m)

\* the guard of castSpell
CastRejected(m) == ~HasLocal(m) \/ m.spellCooldown > 0

\* castSpell: the cooldown starts; Shield raises the shield, any other spell
\* adds a projectile
Cast(m, spellType) ==
  IF spellType.name = "Shield"
  THEN createShieldEffect([m EXCEPT !.spellCooldown = spellType.cooldown,
                                    !.obs.castAccepted = TRUE])
  ELSE [m EXCEPT !.spellCooldown = spellType.cooldown,
                 !.obs.castAccepted = TRUE,
                 !.activeSpells =
                   Append(@, NewSpell(m.localPlayer, spellType, m.hist.spellsCreated + 1)),
                 !.hist.spellsCreated = @ + 1]

\* castSpell()
castSpell(m) ==
  IF CastRejected(m) THEN m ELSE Cast(m, spellTypes[m.localPlayer.currentSpell + 1])

\* updateShield(delta)
updateShield(m, delta) ==
  IF ~HasLocal(m) \/ ~m.localPlayer.shield.on THEN m
  ELSE IF m.localPlayer.shield.duration - delta <= 0
  THEN [m EXCEPT !.localPlayer.shield = NoShield]
  ELSE [m EXCEPT !.localPlayer.shield.duration = @ - delta]

\* array.splice(i, 1): nothing is removed when i is past the end
Splice(a, i) ==
  IF i > Len(a) THEN a
  ELSE [k \in 1..(Len(a) - 1) |-> IF k < i THEN a[k] ELSE a[k + 1]]

\* k times splice(i, 1)
RECURSIVE SpliceTimes(_, _, _)
SpliceTimes(a, i, k) == IF k = 0 THEN a ELSE SpliceTimes(Splice(a, i), i, k - 1)

\* the actors the forEach of updateSpells finds within the hit radius of sp
ActorsHit(m, sp) ==
  {id \in DOMAIN m.players :
     /\ Actor(m, id).id # sp.owner
     /\ DistanceLess(Actor(m, id).position, sp.position, hitRadius * Scale)}

\* player.health -= damage; player.health = Math.max(0, player.health)
Damaged(a, damage) == [a EXCEPT !.health = Max2(0, @ - damage)]

\* the damage of one projectile applied to every actor the forEach hits
ApplyDamage(m, hit, damage) ==
  [m EXCEPT
     !.players = [id \in DOMAIN m.players |->
                    IF id \in hit /\ m.players[id] # LocalRef
                    THEN Damaged(m.players[id], damage) ELSE m.players[id]],
     !.localPlayer = IF \E id \in hit : m.players[id] = LocalRef
                     THEN Damaged(m.localPlayer, damage) ELSE m.localPlayer]

\* the ids of the projectiles k splices at index i remove from a
SplicedIds(a, i, k) == {a[j].sid : j \in {j \in i..(i + k - 1) : j <= Len(a)}}

\* updateSpells: spell.position += velocity * delta; spell.life -= delta
Advanced(sp, delta) ==
  [sp EXCEPT !.position = VAdd(@, VScale(sp.velocity, delta, TimeScale)),
             !.life = @ - delta]

\* spell.position.y < terrainY; false when terrainY is NaN
Below(sp, t) == t.kind = "num" /\ sp.position.y < t.v
Expired(sp) == sp.life <= 0

\* what held for the projectile sp when its checks were made
Cond(sp, t, hit) ==
  [sid |-> sp.sid, below |-> Below(sp, t), expired |-> Expired(sp), near |-> hit]

\* the terrain and lifetime branch: splice(i, 1); continue
RemoveSpent(m, i, sp, t) ==
  [m EXCEPT
     !.activeSpells = Splice(@, i),
     !.obs.removals =
       Append(@, [by |-> sp.sid, splices |-> 1, removed |-> {sp.sid},
                  cause |-> IF Below(sp, t) THEN "terrain" ELSE "expiry"])]

\* the forEach over the players: every actor in hit is damaged and every one of
\* them runs splice(i, 1)
HitActors(m, i, sp, hit) ==
  IF hit = {} THEN m
  ELSE [ApplyDamage(m, hit, sp.damage) EXCEPT
          !.activeSpells = SpliceTimes(@, i, Cardinality(hit)),
          !.obs.damage = Append(@, [by |-> sp.sid, targets |-> hit, amount |-> sp.damage]),
          !.obs.removals =
            Append(@, [by |-> sp.sid, splices |-> Cardinality(hit),
                       removed |-> SplicedIds(m.activeSpells, i, Cardinality(hit)),
                       cause |-> "actor"])]

\* the checks of the loop body, for the advanced projectile sp over the terrain t
Checked(m, i, sp, t, hit) ==
  IF t.kind = "throw" THEN [m EXCEPT !.obs.thrown = TRUE]
  ELSE IF Below(sp, t) \/ Expired(sp)
  THEN RemoveSpent([m EXCEPT !.obs.conds = Append(@, Cond(sp, t, hit))], i, sp, t)
  ELSE HitActors([m EXCEPT !.obs.conds = Append(@, Cond(sp, t, hit))], i, sp, hit)

StepWith(m, i, sp) ==
  Checked([m EXCEPT !.activeSpells[i] = sp, !.obs.updated = Append(@, sp.sid)],
          i, sp, getTerrainHeight(m.heightMap, sp.position.x, sp.position.z),
          ActorsHit(m, sp))

\* one pass of the loop body of updateSpells, for index i
SpellStep(m, i, delta) == StepWith(m, i, Advanced(m.activeSpells[i], delta))

\* for (let i = activeSpells.length - 1; i >= 0; i--), until an exception
RECURSIVE SpellLoop(_, _, _)
SpellLoop(m, i, delta) ==
  IF i = 0 \/ m.obs.thrown THEN m
  ELSE SpellLoop(SpellStep(m, i, delta), i - 1, delta)

\* updateSpells: the cooldown runs down
CoolDown(m, delta) ==
  IF m.spellCooldown > 0 THEN [m EXCEPT !.spellCooldown = @ - delta] ELSE m

AllSpells(m, delta) == SpellLoop(m, Len(m.activeSpells), delta)

\* updateSpells(delta)
updateSpells(m, delta) == AllSpells(updateShield(CoolDown(m, delta), delta), delta)

-----------------------------------------------------------------------------
(* PlayerSystem: collection, world transition, the per-frame update        *)

collectRadius == 5
boundaryBuffer == 50
fadeEnd == 40           \* transitionAlpha 2.0, in twentieths
startAltitude == 50

RECURSIVE SumValues(_, _)
SumValues(nodes, S) ==
  IF S = {} THEN 0
  ELSE LET i == CHOOSE i \in S : TRUE
       IN nodes[i].value + SumValues(nodes, S \ {i})

\* PlayerSystem.checkManaCollection() setting the mana to the reward instead of
\* adding the reward to it
checkManaCollectionAssigning(m) ==
  IF ~HasLocal(m) THEN m
  ELSE LET got == CollectedIndices(m.manaNodes, m.localPlayer.position, collectRadius * Scale)
       IN [m EXCEPT
             !.manaNodes = MarkCollected(@, m.localPlayer.position, collectRadius * Scale),
             !.localPlayer.mana = SumValues(m.manaNodes, got),
             !.obs.collected = got,
             !.hist.returned = [i \in DOMAIN @ |-> IF i \in got THEN @[i] + 1 ELSE @[i]]]

\* PlayerSystem.checkManaCollection()
checkManaCollection(m) ==
  IF ~HasLocal(m) THEN m
  ELSE LET got == CollectedIndices(m.manaNodes, m.localPlayer.position, collectRadius * Scale)
       IN [m EXCEPT
             !.manaNodes = MarkCollected(@, m.localPlayer.position, collectRadius * Scale),
             !.localPlayer.mana = @ + SumValues(m.manaNodes, got),
             !.obs.collected = got,
             !.hist.returned = [i \in DOMAIN @ |-> IF i \in got THEN @[i] + 1 ELSE @[i]]]

\* the callback without the move of the local actor back to the centre
worldTransitionCallbackInPlace(m, s, L) ==
  [m EXCEPT !.seed = s,
            !.heightMap = createTerrainCollision(s),
            !.manaNodes = createManaNodes(L, createTerrainCollision(s)),
            !.obs.regenerated = @ + 1,
            !.hist.regenCount = @ + 1,
            !.hist.returned = [i \in DOMAIN @ |-> 0]]

\* the callback startWorldTransition sets: a new seed s and a new node layout L
\* are drawn, the world is rebuilt, the local actor is put back at the centre
worldTransitionCallback(m, s, L) ==
  LET hm == createTerrainCollision(s)
  IN [m EXCEPT !.seed = s,
               !.heightMap = hm,
               !.manaNodes = createManaNodes(L, hm),
               !.localPlayer.position = Vec(0, startAltitude * Scale, 0),
               !.localPlayer.velocity = ZeroVec,
               !.obs.regenerated = @ + 1,
               !.hist.regenCount = @ + 1,
               !.hist.returned = [i \in DOMAIN @ |-> 0]]

\* updateTransition with the callback dropped instead of called
updateTransitionNoCallback(m, delta, s, L) ==
  IF m.transitionAlpha + delta >= fadeEnd
  THEN [m EXCEPT !.isTransitioning = FALSE, !.transitionAlpha = 0,
                 !.worldTransitionComplete = FALSE]
  ELSE [m EXCEPT !.transitionAlpha = @ + delta]

\* updateTransition holding the fade one step before its end
updateTransitionHeld(m, delta, s, L) ==
  [m EXCEPT !.transitionAlpha = Min2(@ + delta, fadeEnd - 1)]

\* updateTransition(delta): transitionAlpha += delta * 0.5
updateTransition(m, delta, s, L) ==
  LET alpha == m.transitionAlpha + delta
  IN IF alpha >= fadeEnd
     THEN LET ended == [m EXCEPT !.isTransitioning = FALSE, !.transitionAlpha = 0]
          IN IF m.worldTransitionComplete
             THEN [worldTransitionCallback(ended, s, L) EXCEPT
                     !.worldTransitionComplete = FALSE]
             ELSE ended
     ELSE [m EXCEPT !.transitionAlpha = alpha]

\* startWorldTransition drawing the new seed at once, the grid being rebuilt
\* by the callback only
startWorldTransitionReseeding(m) ==
  IF m.isTransitioning THEN m
  ELSE [m EXCEPT !.isTransitioning = TRUE,
                 !.transitionAlpha = 0,
                 !.worldTransitionComplete = TRUE,
                 !.seed = (@ + 1) % (MaxSeed + 1),
                 !.obs.started = TRUE,
                 !.hist.transitions = @ + 1]

\* startWorldTransition()
startWorldTransition(m) ==
  IF m.isTransitioning THEN m
  ELSE [m EXCEPT !.isTransitioning = TRUE,
                 !.transitionAlpha = 0,
                 !.worldTransitionComplete = TRUE,
                 !.obs.started = TRUE,
                 !.hist.transitions = @ + 1]

\* checkWorldBoundaries()
checkWorldBoundaries(m) ==
  IF ~HasLocal(m) \/ m.isTransitioning THEN m
  ELSE LET halfSize == (worldSize \div 2 - boundaryBuffer) * Scale
       IN IF Abs(m.localPlayer.position.x) > halfSize
             \/ Abs(m.localPlayer.position.z) > halfSize
          THEN startWorldTransition(m)
          ELSE m

\* PlayerSystem.sendPlayerUpdate()
sendPlayerUpdate(m) ==
  IF ~HasLocal(m) THEN m
  ELSE netSendPlayerUpdate(m,
         [x |-> m.localPlayer.position.x, y |-> m.localPlayer.position.y,
          z |-> m.localPlayer.position.z, rotationY |-> m.localPlayer.rotation.y,
          mana |-> m.localPlayer.mana, health |-> m.localPlayer.health])

\* update: checkManaCollection, checkWorldBoundaries, sendPlayerUpdate, unless
\* an exception has ended the frame
AfterSpells(m) ==
  IF m.obs.thrown THEN m
  ELSE sendPlayerUpdate(
         checkWorldBoundaries(
           Logged(checkManaCollection(Logged(m, "collection")), "boundary")))

\* update with the collection check before updateSpells
AfterPhysicsCollectFirst(m, flown, delta) ==
  IF flown.thrown
  THEN [m EXCEPT !.localPlayer = flown.pl, !.obs.thrown = TRUE]
  ELSE LET spelled ==
             updateSpells(
               Logged(checkManaCollection(
                        Logged([m EXCEPT !.localPlayer = flown.pl], "collection")),
                      "spells"),
               delta)
       IN IF spelled.obs.thrown THEN spelled
          ELSE sendPlayerUpdate(checkWorldBoundaries(Logged(spelled, "boundary")))

\* update: the local actor after handleInput and updatePhysics, then updateSpells
AfterPhysics(m, flown, delta) ==
  IF flown.thrown
  THEN [m EXCEPT !.localPlayer = flown.pl, !.obs.thrown = TRUE]
  ELSE AfterSpells(updateSpells(Logged([m EXCEPT !.localPlayer = flown.pl], "spells"),
                                delta))

\* update without the early return of a transition: the fade advances and the
\* subsystems run as in any frame
updateThroughTransition(m, delta, s, L) ==
  IF ~HasLocal(m) THEN m
  ELSE AfterPhysics(IF m.isTransitioning THEN updateTransition(m, delta, s, L) ELSE m,
         updatePhysics(m.heightMap, handleInput(m.inputState, m.localPlayer, delta), delta),
         delta)

\* PlayerSystem.update(delta): an exception in a subsystem ends the frame there
update(m, delta, s, L) ==
  IF ~HasLocal(m) THEN m
  ELSE IF m.isTransitioning THEN updateTransition(m, delta, s, L)
  ELSE AfterPhysics(Logged(Logged(m, "input"), "physics"),
         updatePhysics(m.heightMap, handleInput(m.inputState, m.localPlayer, delta), delta),
         delta)

\* NetworkManager.update(delta): with probability 0.05 every player known to the
\* network except the local one is sent a snapshot displaced by j
RECURSIVE JitterAll(_, _, _)
JitterAll(m, ids, j) ==
  IF ids = {} THEN m
  ELSE LET id == CHOOSE id \in ids : TRUE
           p == m.netPlayers[id]
           snapshot == [id |-> id, x |-> p.x + j.x, y |-> p.y + j.y, z |-> p.z + j.z]
       IN JitterAll(handlePlayerUpdate(m, snapshot), ids \ {id}, j)

networkUpdate(m, fire, j) ==
  IF fire THEN JitterAll(m, DOMAIN m.netPlayers \ {m.localPlayerId}, j) ELSE m

\* WorldSystem.update(delta, elapsed)
worldUpdate(m) == [m EXCEPT !.manaNodes = Bobbed(@, m.elapsed)]

\* Engine.animate: the clock is read, then the systems are updated in the order
\* network, world, player
animate(m, delta, fire, j, s, L) ==
  update(worldUpdate(networkUpdate([m EXCEPT !.elapsed = @ + delta], fire, j)),
         delta, s, L)

-----------------------------------------------------------------------------
(* The state machine                                                       *)

\* bounds of the exploration: the number of operations of a session and of the
\* local player alone, the numbers of frames, joins and casts of a fight, and
\* the number of frames of a long flight
MaxSteps == 3
MaxSoloSteps == 4
MaxCombatTicks == 3
MaxJoins == 2
MaxCasts == 2
MaxFlightTicks == 7
MaxJitters == 1

\* frame lengths (tenths of a second): a slow frame, and a stall of five seconds
\* (clock.getDelta() is not capped)
Frame == 4
Stall == 50
\* the page was hidden for six seconds: no frame is run meanwhile, and the next
\* one gets the whole time as its delta
Freeze == 60
\* a frame shorter than the unit of time; the first frame of the clock has
\* a delta of exactly 0
Swift == 0
Deltas == {Frame, Stall}
LocalIds == {"player_1"}
Bot1 == [id |-> "player_ai_1", name |-> "Magic Bot 1",
         x |-> 10 * Scale, y |-> 5 * Scale, z |-> 20 * Scale]
Bot2 == [id |-> "player_ai_2", name |-> "Magic Bot 2",
         x |-> -15 * Scale, y |-> 7 * Scale, z |-> -5 * Scale]
\* the displacement a simulated snapshot adds: below 0.25 in x and z, 0.05 in y
Jitters == {Vec(20, -4, 20)}

\* remote players that join later, and where: on the path of a projectile cast
\* from the start position, one and three frames away
JoinIds == {"player_2", "player_3"}
JoinSpots == {Vec(0, 50 * Scale, 42 * Scale), Vec(0, 50 * Scale, 122 * Scale)}
JoinData == {[id |-> id, x |-> p.x, y |-> p.y, z |-> p.z] : id \in JoinIds, p \in JoinSpots}
LeaveIds == {"player_2", "player_ai_2"}
\* snapshots of remote players: only the fields present are sent
UpdateIds == {"player_ai_1", "player_2"}
Snapshots(id) ==
  { [id |-> id, health |-> 150],
    [id |-> id, x |-> 0, y |-> 2 * Scale, z |-> 0],
    [id |-> id, mana |-> 30] }
\* the centre of the window and positions of the free mouse (pixels): at the
\* right edge, left of the centre, inside the dead zone
WindowCentre == [x |-> 640, y |-> 360]
MousePositions == { [x |-> 1280, y |-> 360], [x |-> 320, y |-> 360], [x |-> 650, y |-> 360] }
\* mouse movements with the pointer locked (pixels): a quarter turn, a dive
MouseMoves == { [dx |-> -785, dy |-> 0], [dx |-> 0, dy |-> -100] }
\* keyboard states: W, D, Space, W and Shift
KeyStates == { [NoInput EXCEPT !.forward = 1],
               [NoInput EXCEPT !.right = 1],
               [NoInput EXCEPT !.up = 1],
               [NoInput EXCEPT !.forward = 1, !.boosting = TRUE] }

NoHist ==
  [ticks |-> 0, casts |-> 0, inputs |-> 0, nets |-> 0, jitters |-> 0,
   spellsCreated |-> 0, transitions |-> 0, regenCount |-> 0,
   returned |-> [i \in 1..nodeCount |-> 0]]

\* operations taken so far
Steps == hist.ticks + hist.casts + hist.inputs + hist.nets

\* the state after Engine.initialize(): the world is built from a random seed,
\* nobody is connected yet
Init ==
  \E s \in Seeds, L \in Layouts :
    /\ seed = s
    /\ heightMap = createTerrainCollision(s)
    /\ manaNodes = createManaNodes(L, createTerrainCollision(s))
    /\ players = << >>
    /\ localPlayer = NoPlayer
    /\ isTransitioning = FALSE
    /\ transitionAlpha = 0
    /\ worldTransitionComplete = FALSE
    /\ spellCooldown = 0
    /\ activeSpells = << >>
    /\ inputState = NoInput
    /\ netPlayers = << >>
    /\ localPlayerId = NoId
    /\ elapsed = 0
    /\ obs = NoObs("init")
    /\ hist = NoHist

\* the timer of NetworkManager.initialize: the local player is connected and the
\* two simulated players join
SimulatedConnect ==
  /\ localPlayerId = NoId
  /\ \E id \in LocalIds :
       Apply(handlePlayerJoin(
               handlePlayerJoin(
                 createLocalPlayer([Begin(Cur, "connect") EXCEPT !.localPlayerId = id], id),
                 Bot1),
               Bot2))

\* this frame ends the transition and runs the callback, which draws at random
Regenerates(delta) ==
  /\ HasLocal(Cur) /\ isTransitioning /\ worldTransitionComplete
  /\ transitionAlpha + delta >= fadeEnd

\* the frame of length delta, with the draws of the callback
Frame1(delta, fire, j, s, L) ==
  Apply(animate([Begin(Cur, "tick") EXCEPT
                   !.obs.delta = delta,
                   !.hist.ticks = @ + 1,
                   !.hist.jitters = IF fire THEN @ + 1 ELSE @],
                delta, fire, j, s, L))

\* one frame of Engine.animate
Tick(limit, deltas, jitters) ==
  /\ hist.ticks < limit
  /\ \E delta \in deltas, fire \in BOOLEAN, j \in Jitters :
       /\ fire => hist.jitters < jitters /\ DOMAIN netPlayers # {}
       /\ ~fire => j = CHOOSE k \in Jitters : TRUE
       /\ IF Regenerates(delta)
          THEN \E s \in Seeds, L \in Layouts : Frame1(delta, fire, j, s, L)
          ELSE Frame1(delta, fire, j, seed, 0)

\* the cast key or button
CastSpell(limit) ==
  /\ hist.casts < limit
  /\ Apply(castSpell([Begin(Cur, "cast") EXCEPT !.hist.casts = @ + 1]))

\* keys 1 to 3
SelectSpell(limit) ==
  /\ hist.inputs < limit
  /\ \E index \in 0..(Len(spellTypes) - 1) :
       Apply(selectSpell([Begin(Cur, "select") EXCEPT !.hist.inputs = @ + 1], index))

\* mousemove with the pointer locked
MouseLook(limit) ==
  /\ hist.inputs < limit
  /\ HasLocal(Cur)
  /\ \E mv \in MouseMoves :
       Apply([Begin(Cur, "look") EXCEPT
                !.hist.inputs = @ + 1,
                !.localPlayer = handlePointerLockedRotation(@, mv.dx, mv.dy)])

\* keydown and keyup: the keyboard state handleInput reads
KeyChange(limit) ==
  /\ hist.inputs < limit
  /\ \E ks \in KeyStates :
       Apply([Begin(Cur, "keys") EXCEPT
                !.hist.inputs = @ + 1,
                !.inputState = [ks EXCEPT !.yawInfluence = inputState.yawInfluence,
                                          !.pitchInfluence = inputState.pitchInfluence]])

\* mousemove with the pointer free and no button held
MouseFly(limit) ==
  /\ hist.inputs < limit
  /\ HasLocal(Cur)
  /\ \E mouse \in MousePositions :
       Apply([Begin(Cur, "fly") EXCEPT
                !.hist.inputs = @ + 1,
                !.inputState = handleMouseFlyingControl(@, mouse, WindowCentre)])

\* socket event player_join
PlayerJoin(limit) ==
  /\ hist.nets < limit
  /\ \E data \in JoinData :
       Apply(handlePlayerJoin([Begin(Cur, "join") EXCEPT
                                !.hist.nets = @ + 1, !.obs.snapshot = data],
                              data))

\* socket event player_leave
PlayerLeave(limit) ==
  /\ hist.nets < limit
  /\ \E id \in LeaveIds :
       Apply(handlePlayerLeave([Begin(Cur, "leave") EXCEPT
                                 !.hist.nets = @ + 1, !.obs.snapshot = [id |-> id]],
                               [id |-> id]))

\* socket event player_update
PlayerUpdate(limit) ==
  /\ hist.nets < limit
  /\ \E id \in UpdateIds : \E data \in Snapshots(id) :
       Apply(handlePlayerUpdate([Begin(Cur, "update") EXCEPT
                                  !.hist.nets = @ + 1, !.obs.snapshot = data],
                                data))

\* socket event player_join that names the local player: the server announces
\* a join to every client, the one that joined included
PlayerJoinEcho(limit) ==
  /\ hist.nets < limit
  /\ \E id \in LocalIds, p \in JoinSpots :
       Apply(handlePlayerJoin([Begin(Cur, "join") EXCEPT
                                !.hist.nets = @ + 1,
                                !.obs.snapshot = [id |-> id, x |-> p.x, y |-> p.y, z |-> p.z]],
                              [id |-> id, x |-> p.x, y |-> p.y, z |-> p.z]))

\* socket event player_update that names the local player
PlayerUpdateEcho(limit) ==
  /\ hist.nets < limit
  /\ \E id \in LocalIds : \E data \in Snapshots(id) :
       Apply(handlePlayerUpdate([Begin(Cur, "update") EXCEPT
                                  !.hist.nets = @ + 1, !.obs.snapshot = data],
                                data))

\* socket event player_leave that names the local player
PlayerLeaveEcho(limit) ==
  /\ hist.nets < limit
  /\ \E id \in LocalIds :
       Apply(handlePlayerLeave([Begin(Cur, "leave") EXCEPT
                                 !.hist.nets = @ + 1, !.obs.snapshot = [id |-> id]],
                               [id |-> id]))

\* a session: every operation, in any order, MaxSteps operations in all
Next ==
  \/ SimulatedConnect
  \/ Steps < MaxSteps /\ Tick(MaxSteps, Deltas, MaxJitters)
  \/ Steps < MaxSteps /\ CastSpell(MaxSteps)
  \/ Steps < MaxSteps /\ SelectSpell(MaxSteps)
  \/ Steps < MaxSteps /\ MouseLook(MaxSteps)
  \/ Steps < MaxSteps /\ KeyChange(MaxSteps)
  \/ Steps < MaxSteps /\ PlayerJoin(MaxSteps)
  \/ Steps < MaxSteps /\ PlayerLeave(MaxSteps)
  \/ Steps < MaxSteps /\ PlayerUpdate(MaxSteps)

Spec == Init /\ [][Next]_vars

\* the local player alone: aiming, choosing a spell, casting, frames and stalls
SoloNext ==
  \/ SimulatedConnect
  \/ Steps < MaxSoloSteps /\ MouseLook(MaxSoloSteps)
  \/ Steps < MaxSoloSteps /\ SelectSpell(MaxSoloSteps)
  \/ Steps < MaxSoloSteps /\ CastSpell(MaxSoloSteps)
  \/ Steps < MaxSoloSteps /\ Tick(MaxSoloSteps, Deltas, 0)

SoloSpec == Init /\ [][SoloNext]_vars

\* a fight: players join, the local player casts, regular frames
CombatNext ==
  \/ SimulatedConnect
  \/ PlayerJoin(MaxJoins)
  \/ CastSpell(MaxCasts)
  \/ Tick(MaxCombatTicks, {Frame}, 0)

CombatSpec == Init /\ [][CombatNext]_vars

\* the local player's own events come back from the server, among frames and
\* the snapshots of the others
MaxEchoSteps == 4
EchoNext ==
  \/ SimulatedConnect
  \/ Steps < MaxEchoSteps /\ PlayerJoinEcho(MaxEchoSteps)
  \/ Steps < MaxEchoSteps /\ PlayerUpdateEcho(MaxEchoSteps)
  \/ Steps < MaxEchoSteps /\ PlayerLeaveEcho(MaxEchoSteps)
  \/ Steps < MaxEchoSteps /\ PlayerUpdate(MaxEchoSteps)
  \/ Steps < MaxEchoSteps /\ Tick(MaxEchoSteps, {Frame}, MaxJitters)

EchoSpec == Init /\ [][EchoNext]_vars

\* turning: the free mouse and the keys steer, through swift and slow frames
MaxBankInputs == 2
MaxBankTicks == 4
BankNext ==
  \/ SimulatedConnect
  \/ MouseFly(MaxBankInputs)
  \/ KeyChange(MaxBankInputs)
  \/ Tick(MaxBankTicks, {Swift, Frame}, 0)

BankSpec == Init /\ [][BankNext]_vars

\* the page is hidden and shown again while the local player flies
MaxHangSteps == 4
HangNext ==
  \/ SimulatedConnect
  \/ Steps < MaxHangSteps /\ MouseLook(MaxHangSteps)
  \/ Steps < MaxHangSteps /\ KeyChange(MaxHangSteps)
  \/ Steps < MaxHangSteps /\ SelectSpell(MaxHangSteps)
  \/ Steps < MaxHangSteps /\ CastSpell(MaxHangSteps)
  \/ Steps < MaxHangSteps /\ Tick(MaxHangSteps, {Frame, Freeze}, 0)

HangSpec == Init /\ [][HangNext]_vars

\* a fade: requestAnimationFrame is asked for the next frame before anything
\* else in animate, so frames keep coming while a transition is in progress;
\* the player goes on pressing keys and casting, and snapshots go on arriving
MaxFadeTicks == 2
MaxFadeEvents == 2
FadeEvents == hist.casts + hist.inputs + hist.nets
FadeTick == isTransitioning /\ Tick(hist.ticks + 1, {Frame}, 0)
FadeNext ==
  \/ SimulatedConnect
  \/ FadeEvents < MaxFadeEvents /\ MouseLook(MaxFadeEvents)
  \/ FadeEvents < MaxFadeEvents /\ CastSpell(MaxFadeEvents)
  \/ FadeEvents < MaxFadeEvents /\ PlayerUpdate(MaxFadeEvents)
  \/ ~isTransitioning /\ Tick(MaxFadeTicks, Deltas, 0)
  \/ FadeTick

\* the frames that requestAnimationFrame delivers during a fade, told by the
\* clock of the engine alone: among the steps of FadeNext these are the steps
\* of FadeTick, which is enabled whenever a transition is in progress
AnimationFrame == isTransitioning /\ elapsed' = elapsed + Frame

FadeSpec == Init /\ [][FadeNext]_vars /\ WF_elapsed(AnimationFrame)

\* updateAltitude on its own: the local actor as updatePhysics hands it over,
\* at heights from below the floor to above the ceiling, falling, level or
\* rising, with altitude rates between the two limits of applyAltitudeChange
MaxAltitudeSteps == 2
AltitudeHeights == {0, 4 * Scale, 50 * Scale, 299 * Scale, 310 * Scale}
AltitudeFalls == {-20 * Scale, 0, 20 * Scale}
AltitudeRates == {-maxAltitudeVelocity * Scale, -12 * Scale, -11 * Scale, 0,
                  maxAltitudeVelocity * Scale}
AltitudeStart(s, L, id, y, vy, rate) ==
  [createLocalPlayer(
     [seed |-> s, heightMap |-> createTerrainCollision(s),
      manaNodes |-> createManaNodes(L, createTerrainCollision(s)),
      players |-> << >>, localPlayer |-> NoPlayer,
      isTransitioning |-> FALSE, transitionAlpha |-> 0,
      worldTransitionComplete |-> FALSE,
      spellCooldown |-> 0, activeSpells |-> << >>,
      inputState |-> NoInput, netPlayers |-> << >>,
      localPlayerId |-> id, elapsed |-> 0, obs |-> NoObs("init"),
      hist |-> NoHist], id)
   EXCEPT !.localPlayer.position.y = y,
          !.localPlayer.velocity.y = vy,
          !.localPlayer.altitudeVelocity = rate]
AltitudeInit ==
  \E s \in Seeds, L \in Layouts, id \in LocalIds :
    \E y \in AltitudeHeights, vy \in AltitudeFalls, rate \in AltitudeRates :
      /\ seed = s
      /\ heightMap = createTerrainCollision(s)
      /\ manaNodes = createManaNodes(L, createTerrainCollision(s))
      /\ players = AltitudeStart(s, L, id, y, vy, rate).players
      /\ localPlayer = AltitudeStart(s, L, id, y, vy, rate).localPlayer
      /\ isTransitioning = FALSE
      /\ transitionAlpha = 0
      /\ worldTransitionComplete = FALSE
      /\ spellCooldown = 0
      /\ activeSpells = << >>
      /\ inputState = NoInput
      /\ netPlayers = << >>
      /\ localPlayerId = id
      /\ elapsed = 0
      /\ obs = NoObs("init")
      /\ hist = NoHist

\* one call of updateAltitude(player, delta)
UpdateAltitude(limit) ==
  /\ hist.ticks < limit
  /\ \E delta \in Deltas :
       Apply([Begin(Cur, "altitude") EXCEPT
                !.obs.delta = delta,
                !.obs.thrown = updateAltitude(heightMap, localPlayer, delta).thrown,
                !.hist.ticks = @ + 1,
                !.localPlayer = updateAltitude(heightMap, localPlayer, delta).pl])

AltitudeNext == UpdateAltitude(MaxAltitudeSteps)

AltitudeSpec == AltitudeInit /\ [][AltitudeNext]_vars

\* a long flight: frames and stalls, across the world boundary and back
FlightNext ==
  \/ SimulatedConnect
  \/ Tick(MaxFlightTicks, Deltas, 0)

FlightSpec == Init /\ [][FlightNext]_vars

-----------------------------------------------------------------------------
(* Properties                                                              *)

\* the actors of the player set
Actors == {Actor(Cur, id) : id \in DOMAIN players}

\* C1: in one update at most one removal action is performed on behalf of a
\* projectile, and it removes that projectile and no other.
C1_OneRemovalPerProjectile ==
  \A k \in DOMAIN obs.removals :
    obs.removals[k].splices = 1 /\ obs.removals[k].removed = {obs.removals[k].by}

\* C2: a projectile within the hit radius of several actors other than its
\* owner damages at most one of them.
C2_AtMostOneActorDamaged ==
  \A k \in DOMAIN obs.damage : Cardinality(obs.damage[k].targets) <= 1

\* C3: no frame ends in an error raised by a terrain height query of the
\* physics or of the projectile update.
C3_TerrainQuerySucceeds == ~obs.thrown

\* C4: within a generation of the world a mana node is returned by at most one
\* collection check, and once returned it stays collected: the number of times
\* a node was returned since the nodes were created is 1 if it is collected
\* and 0 if not.
C4_NodeReturnedOnce ==
  \A i \in 1..nodeCount :
    hist.returned[i] = IF manaNodes[i].collected THEN 1 ELSE 0

\* C4: a node is collected in a world that a transition has regenerated.
C4_Witness ==
  /\ hist.regenCount >= 1
  /\ obs.collected # {}
  /\ \E i \in 1..nodeCount : manaNodes[i].collected

\* the midpoint of the fade: transitionAlpha 1.0
fadeMid == fadeEnd \div 2

\* C5: once transitionAlpha has passed 1.0 during a transition, the
\* regeneration callback of this transition has run and the local actor is at
\* the centre, while the state is still Transitioning.
C5_CallbackAtMidpoint ==
  (isTransitioning /\ transitionAlpha > fadeMid)
    => /\ hist.regenCount = hist.transitions
       /\ localPlayer.position = Vec(0, startAltitude * Scale, 0)

\* C6: every transition that has ended has run the regeneration callback
\* exactly once, a transition under way holds exactly one callback, and in the
\* Normal state no callback is held or run.
C6_OneCallbackPerTransition ==
  /\ hist.regenCount + (IF isTransitioning THEN 1 ELSE 0) = hist.transitions
  /\ worldTransitionComplete <=> isTransitioning
  /\ obs.regenerated <= 1

\* C6: two transitions have been gone through, each with its callback.
C6_Witness == hist.transitions = 2 /\ hist.regenCount = 2 /\ ~isTransitioning

\* C7: every actor's health is between 0 and its maxHealth.
C7_HealthInRange == \A a \in Actors : 0 <= a.health /\ a.health <= a.maxHealth

\* the terrain height under the actor a
TerrainUnder(a) == getTerrainHeight(heightMap, a.position.x, a.position.z)

\* C8: every actor, local or remote, is at least 5 above the terrain and at
\* most at the altitude 300.
C8_AltitudeInRange ==
  \A a \in Actors :
    TerrainUnder(a).kind = "num"
      => /\ a.position.y >= TerrainUnder(a).v + 5 * Scale
         /\ a.position.y <= maxAltitude * Scale

\* C9: a projectile that is below the terrain or whose life is used up damages
\* nobody, and no projectile whose life is used up is left among the active
\* ones.
C9_SpentProjectileRemoved ==
  /\ \A k \in DOMAIN obs.conds :
       (obs.conds[k].below \/ obs.conds[k].expired)
         => \A d \in DOMAIN obs.damage : obs.damage[d].by # obs.conds[k].sid
  /\ \A k \in DOMAIN activeSpells : activeSpells[k].life > 0

\* C10: a cast while the cooldown runs changes nothing: no projectile, no
\* shield, the cooldown as it was; so of two casts closer than the cooldown
\* only the first makes a projectile.
C10_CastOnCooldownIsNoOp ==
  [][(hist'.casts = hist.casts + 1 /\ spellCooldown > 0)
       => /\ activeSpells' = activeSpells
          /\ localPlayer' = localPlayer
          /\ spellCooldown' = spellCooldown
          /\ hist'.spellsCreated = hist.spellsCreated]_vars

\* C10: a second cast, a frame after the first, was refused while the cooldown
\* was running.
C10_Witness ==
  /\ obs.op = "cast" /\ ~obs.castAccepted
  /\ hist.casts = 2 /\ hist.ticks >= 1
  /\ spellCooldown > 0
  /\ hist.spellsCreated = 1 /\ Len(activeSpells) = 1

\* the frame taken runs the collection check: a local player exists, no
\* transition is under way and no subsystem raises an error
CollectionRuns == HasLocal(Cur) /\ ~isTransitioning /\ obs'.op = "tick" /\ ~obs'.thrown

\* C11: the collection check of a frame returns exactly the nodes that were
\* uncollected before it and are nearer than radius + 2 to the position of the
\* local actor, however many they are, and marks exactly those collected.
C11_CollectsAllInReach ==
  [][CollectionRuns =>
       \A i \in 1..nodeCount :
         /\ i \in obs'.collected
              <=> /\ ~manaNodes[i].collected
                  /\ DistanceLess(localPlayer'.position, manaNodes'[i].position,
                                  (collectRadius + 2) * Scale)
         /\ manaNodes'[i].collected
              <=> (manaNodes[i].collected \/ i \in obs'.collected)]_vars

\* C11: one check has returned two nodes at once and left a third one, out of
\* reach, uncollected.
C11_Witness ==
  /\ obs.op = "tick"
  /\ Cardinality(obs.collected) >= 2
  /\ \E i \in 1..nodeCount : ~manaNodes[i].collected

Probes == {Vec(0, 0, 0), Vec(10 * Scale, 0, 20 * Scale), Vec(-400 * Scale, 0, 250 * Scale)}

\* C13: the height grid is the one computed from the seed, and seed and grid
\* change only in the step that runs the regeneration callback of a
\* transition; in every other step getTerrainHeight gives the same height at
\* the same place before and after.
C13_TerrainFixedBetweenTransitions ==
  /\ heightMap = createTerrainCollision(seed)
  /\ [][/\ heightMap' = createTerrainCollision(seed')
        /\ (seed' # seed \/ heightMap' # heightMap)
             => (isTransitioning /\ ~isTransitioning' /\ obs'.regenerated = 1)
        /\ obs'.regenerated = 0
             => \A p \in Probes :
                  getTerrainHeight(heightMap', p.x, p.z) = getTerrainHeight(heightMap, p.x, p.z)]_vars

\* C13: the regeneration callback has run, and a network event after it has
\* left seed and grid alone.
C13_Witness ==
  /\ hist.regenCount >= 1 /\ obs.regenerated = 0
  /\ obs.op = "update"
  /\ seed = MaxSeed

\* C14: a frame in which no snapshot is delivered leaves the position and the
\* velocity of every remote actor as they were (but for a remote actor stored
\* under the local player's id, to which sendPlayerUpdate delivers the local
\* player's snapshot), and a player_update event, the local player's own
\* included, leaves the local actor as it was.
C14_LocalAndRemoteOwnership ==
  [][/\ (obs'.op = "tick" /\ hist'.jitters = hist.jitters)
          => \A id \in (DOMAIN players \cap DOMAIN players') \ {localPlayerId} :
               (players[id] # LocalRef /\ players'[id] # LocalRef)
                 => /\ players'[id].position = players[id].position
                    /\ players'[id].velocity = players[id].velocity
     /\ obs'.op = "update" => localPlayer' = localPlayer]_vars

\* C14: the local player's own snapshot, with a health of 150, has come back
\* and has been merged into the network's record of the player; the local
\* actor has flown a frame and has its health of 100.
C14_Witness ==
  /\ obs.op = "update" /\ HasLocal(Cur) /\ hist.ticks >= 1
  /\ localPlayerId \in DOMAIN netPlayers
  /\ "health" \in DOMAIN netPlayers[localPlayerId]
  /\ netPlayers[localPlayerId].health = 150
  /\ localPlayer.health = startHealth
  /\ localPlayer.position # startPosition

\* C15: a player_update event changes of the actor it names only the
\* attributes whose fields it carries (the position only if it carries x, y
\* and z), changes no other actor, and changes nothing if it names nobody in
\* the player set.
C15_AbsentFieldLeavesAttribute ==
  [][obs'.op = "update"
       => /\ DOMAIN players' = DOMAIN players
          /\ localPlayer' = localPlayer
          /\ \A id \in DOMAIN players :
               IF id # obs'.snapshot.id \/ players[id] = LocalRef
               THEN players'[id] = players[id]
               ELSE /\ ~({"x", "y", "z"} \subseteq DOMAIN obs'.snapshot)
                         => players'[id].position = players[id].position
                    /\ "rotationY" \notin DOMAIN obs'.snapshot
                         => players'[id].rotation = players[id].rotation
                    /\ "mana" \notin DOMAIN obs'.snapshot
                         => players'[id].mana = players[id].mana
                    /\ "health" \notin DOMAIN obs'.snapshot
                         => players'[id].health = players[id].health]_vars

\* the frame was not one of a transition: the subsystems were run
FrameRan == obs.op = "tick" /\ obs.order # << >>

\* C16 as stated: a frame that ends without an error has run input, physics,
\* the collection check, the spell update and the boundary check, in this
\* order.
C16_CollectionBeforeSpells ==
  (FrameRan /\ ~obs.thrown)
    => obs.order = << "input", "physics", "collection", "spells", "boundary" >>

\* C16 amended: a frame runs input, physics, the spell update, the collection
\* check and the boundary check, in this order; a frame ended by an error of the
\* physics or of the spell update has run no collection check.
C16_SpellsBeforeCollection ==
  FrameRan
    => IF obs.thrown
       THEN /\ obs.order \in { << "input", "physics" >>, << "input", "physics", "spells" >> }
            /\ obs.collected = {}
       ELSE obs.order = << "input", "physics", "spells", "collection", "boundary" >>

\* C16: in one frame a projectile was advanced and a node was collected.
C16_Witness ==
  /\ FrameRan /\ ~obs.thrown
  /\ obs.updated # << >>
  /\ obs.collected # {}

\* C17: the bank angle of the local actor is within 45 degrees of level.
C17_BankAngleBounded ==
  HasLocal(Cur) => Abs(localPlayer.bankAngle) <= Pi \div 4

\* updatePhysics has run to its end in the frame taken last
PhysicsCompleted == FrameRan /\ Len(obs.order) >= 3

\* C18: after a frame whose updatePhysics has run to its end the terrain has
\* a height under the local actor, and the actor is at least 5 above it, at
\* least at the altitude 5 and at most at the altitude 300.
C18_AltitudeEnforcedByPhysics ==
  PhysicsCompleted
    => /\ TerrainUnder(localPlayer).kind = "num"
       /\ localPlayer.position.y >= Max2(5 * Scale, TerrainUnder(localPlayer).v + 5 * Scale)
       /\ localPlayer.position.y <= 300 * Scale

\* the local actor is beyond the boundary: |x| or |z| above worldSize / 2 - 50
BeyondBoundary(pl) ==
  \/ Abs(pl.position.x) > (worldSize \div 2 - 50) * Scale
  \/ Abs(pl.position.z) > (worldSize \div 2 - 50) * Scale

\* C19: a frame taken in the Normal state enters Transitioning, with
\* transitionAlpha 0 and the callback set, exactly if it leaves the local
\* actor beyond the boundary; a frame taken while Transitioning starts no
\* transition and does not set transitionAlpha back.
C19_TransitionStartsAtBoundary ==
  [][(obs'.op = "tick" /\ HasLocal(Cur))
       => IF isTransitioning
          THEN /\ ~obs'.started
               /\ isTransitioning' => transitionAlpha' = transitionAlpha + obs'.delta
          ELSE /\ obs'.started <=> BeyondBoundary(localPlayer')
               /\ isTransitioning' <=> BeyondBoundary(localPlayer')
               /\ BeyondBoundary(localPlayer')
                    => (transitionAlpha' = 0 /\ worldTransitionComplete')]_vars

\* C20: while a transition is in progress no operation but a frame touches
\* it, a frame adds 0.5 * delta to transitionAlpha and ends the transition
\* only when 2.0 is reached, and with frames of positive length coming the
\* state is Normal again in the end.
C20_TransitionCompletes ==
  /\ [][isTransitioning
          => IF obs'.op = "tick"
             THEN IF transitionAlpha + obs'.delta >= fadeEnd
                  THEN ~isTransitioning'
                  ELSE isTransitioning' /\ transitionAlpha' = transitionAlpha + obs'.delta
             ELSE isTransitioning' /\ transitionAlpha' = transitionAlpha]_vars
  /\ isTransitioning ~> ~isTransitioning

\* a key, a cast or a snapshot came in the second half of a fade, which goes on
C20_Witness ==
  /\ isTransitioning /\ transitionAlpha >= fadeMid
  /\ obs.op \in {"look", "cast", "update"}
  /\ FadeEvents = MaxFadeEvents

\* the projectile with the number sid among the projectiles a
SpellOf(a, sid) == a[CHOOSE k \in DOMAIN a : a[k].sid = sid]
SpellIds(a) == {a[k].sid : k \in DOMAIN a}

\* a frame of positive length taken in the Normal state with a local player
NormalFrame ==
  obs'.op = "tick" /\ obs'.delta > 0 /\ HasLocal(Cur) /\ ~isTransitioning

\* C21: a frame of positive length in the Normal state takes its length off
\* the life of every projectile and leaves none with its life used up, so a
\* projectile is gone at the latest in the frame in which the time since its
\* cast reaches its life of 3.
C21_ProjectileRemovedInTime ==
  [][NormalFrame
       => \A sid \in SpellIds(activeSpells) \cap SpellIds(activeSpells') :
            /\ SpellOf(activeSpells', sid).life = SpellOf(activeSpells, sid).life - obs'.delta
            /\ SpellOf(activeSpells', sid).life > 0]_vars

\* the cast key is pressed by a local player whose cooldown is over
IdleCast == hist'.casts = hist.casts + 1 /\ HasLocal(Cur) /\ spellCooldown <= 0

\* C22: a cast made when no cooldown runs is accepted and starts the cooldown
\* of the spell cast (0.5, 0.3 or 2 seconds); every frame in the Normal state
\* takes its length off a running cooldown, so the next cast is accepted as
\* soon as the frames since the cast add up to the cooldown.
C22_CooldownRunsDown ==
  [][/\ IdleCast
          => /\ obs'.castAccepted
             /\ spellCooldown' = spellTypes[localPlayer.currentSpell + 1].cooldown
     /\ (obs'.op = "tick" /\ HasLocal(Cur) /\ ~isTransitioning /\ spellCooldown > 0)
          => spellCooldown' = spellCooldown - obs'.delta]_vars

\* C23: an accepted cast of Shield adds no projectile and gives the local
\* actor a shield of duration 3; every frame in the Normal state takes its
\* length off the duration of a shield, and the shield is gone after the frame
\* in which the duration reaches 0 or less.
C23_ShieldExpires ==
  [][/\ (IdleCast /\ spellTypes[localPlayer.currentSpell + 1].name = "Shield")
          => /\ activeSpells' = activeSpells
             /\ localPlayer'.shield = [on |-> TRUE, duration |-> shieldDuration]
     /\ (obs'.op = "tick" /\ HasLocal(Cur) /\ ~isTransitioning /\ localPlayer.shield.on)
          => IF localPlayer.shield.duration - obs'.delta <= 0
             THEN ~localPlayer'.shield.on
             ELSE localPlayer'.shield =
                    [on |-> TRUE, duration |-> localPlayer.shield.duration - obs'.delta]]_vars

\* the actor after the first two lines of updateAltitude, and the terrain
\* under it
Risen == Climb(localPlayer, obs'.delta)
FloorUnder == getTerrainHeight(heightMap, localPlayer.position.x, localPlayer.position.z)
\* updateAltitude lifts the actor to the floor, lowers it to the ceiling
HitsFloor ==
  /\ obs'.op = "altitude"
  /\ FloorUnder.kind = "num"
  /\ Risen.position.y < Max2(minAltitude * Scale, FloorUnder.v + 5 * Scale)
HitsCeiling == obs'.op = "altitude" /\ Risen.position.y > maxAltitude * Scale

C25_AccelerationReset ==
  HasLocal(Cur) => localPlayer.acceleration = ZeroVec

\* the projectile sid was found spent, under the terrain or near an actor
\* other than its owner when the frame checked it
MetCondition(sid) ==
  \E k \in DOMAIN obs'.conds :
    /\ obs'.conds[k].sid = sid
    /\ obs'.conds[k].below \/ obs'.conds[k].expired \/ obs'.conds[k].near # {}

\* C26: a projectile that is gone after a frame was found, in that frame,
\* with its life used up, under the terrain, or within the hit radius of an
\* actor other than its owner.
C26_OnlyEndedProjectilesRemoved ==
  [][obs'.op = "tick"
       => \A sid \in SpellIds(activeSpells) \ SpellIds(activeSpells') :
            MetCondition(sid)]_vars

\* the three fields of the transition agree
TransitionConsistent ==
  IF isTransitioning
  THEN 0 <= transitionAlpha /\ transitionAlpha < fadeEnd /\ worldTransitionComplete
  ELSE transitionAlpha = 0 /\ ~worldTransitionComplete

\* the frame that ends a transition leaves the local actor at the centre
EndsAtCentre ==
  (isTransitioning /\ ~isTransitioning')
    => /\ localPlayer'.position = startPosition
       /\ ~BeyondBoundary(localPlayer')

\* the longest frame (tenths of a second) in which an actor at the speed
\* limit stays within worldSize / 2 - 50 of the centre
SafeFrame == ((worldSize \div 2 - boundaryBuffer) * TimeScale) \div carpetMaxSpeed

LocalEntries == {id \in DOMAIN players : Actor(Cur, id).isLocal}

\* C28: the player set holds at most one local actor, and a local player that
\* exists is the entry of the player set under its own id and has isLocal set.
C28_LocalPlayerIsItsEntry ==
  /\ Cardinality(LocalEntries) <= 1
  /\ HasLocal(Cur)
       => /\ localPlayer.isLocal
          /\ localPlayer.id \in DOMAIN players
          /\ players[localPlayer.id] = LocalRef

\* the nodes that an operation has turned from uncollected to collected
NewlyCollected == {i \in 1..nodeCount : ~manaNodes[i].collected /\ manaNodes'[i].collected}

C30_ActorIdentityStable ==
  [][/\ (obs'.op = "join" /\ obs'.snapshot.id \in DOMAIN players)
          => players' = players /\ localPlayer' = localPlayer
     /\ obs'.op = "join"
          => /\ DOMAIN players' = DOMAIN players \cup {obs'.snapshot.id}
             /\ \A id \in DOMAIN players : players'[id] = players[id]
     /\ obs'.op = "leave"
          => /\ obs'.snapshot.id \notin DOMAIN players'
             /\ obs'.snapshot.id \notin DOMAIN netPlayers'
     /\ obs'.op \notin {"join", "connect"}
          => /\ DOMAIN players' \subseteq DOMAIN players
             /\ DOMAIN netPlayers' \subseteq DOMAIN netPlayers
     /\ (obs'.op = "update" /\ obs'.snapshot.id \notin DOMAIN netPlayers)
          => players' = players /\ localPlayer' = localPlayer]_vars

\* a second player_join of a remote player, from another place: the actor is
\* where the first join put it
C30_Witness ==
  /\ obs.op = "join" /\ hist.jitters = 0
  /\ obs.snapshot.id \in DOMAIN players
  /\ players[obs.snapshot.id] # LocalRef
  /\ players[obs.snapshot.id].position
       = Vec(0, 50 * Scale, 42 * Scale)
  /\ obs.snapshot.z = 122 * Scale

=============================================================================
